---- MODULE Spec2Model ----
(***************************************************************************)
(* Model of guerrillamail.py: the GuerrillaMailSession state machine on    *)
(* top of GuerrillaMailClient.  Every public session method is one action; *)
(* the HTTP answers of the remote service and the value of time() are the  *)
(* inputs of an action.                                                    *)
(*                                                                         *)
(* Python values: None of a string-valued attribute is the string "None"   *)
(* (no token or address of the model is that string), None of the integer  *)
(* attribute email_timestamp is NoneInt.  Data returned by the client is a *)
(* tagged record [type, items]; a dict's items is a function whose DOMAIN  *)
(* is the set of keys the dict carries.                                    *)
(***************************************************************************)
EXTENDS Integers, Sequences, FiniteSets, TLC

VARIABLES
    session_id,       \* GuerrillaMailSession.session_id
    email_address,    \* GuerrillaMailSession.email_address
    email_timestamp,  \* GuerrillaMailSession.email_timestamp
    op,               \* the session method invoked last, with its arguments
    pre,              \* the session record when that method was entered
    calls,            \* the client calls that method made, in order
    expiry,           \* the evaluation of is_expired() made by that method
    error,            \* the exception that method raised, NoError if none
    returned,         \* the value that method returned
    pc,               \* "idle": no method is running and the caller holds
                      \* no outcome; "returned": a method has just ended
    settings_file,    \* the contents of ~/.guerrillamail
    invocation,       \* what the last run of cli() did besides its session
                      \* method: output, error report, saving
    processes         \* the cli() processes running at the same time: where
                      \* each one is and the settings it loaded

vars == <<session_id, email_address, email_timestamp, op, pre, calls,
          expiry, error, returned, pc, settings_file, invocation,
          processes>>

----------------------------------------------------------------------------
(* Bounds of the model *)

\* response timestamps and persisted timestamps range over 0..MaxTimestamp
MaxTimestamp == 1
\* time() ranges from ClockSlack below the earliest expiry instant to
\* ClockSlack above the latest one
ClockSlack == 1
\* an inbox listing carries at most MaxListLen entries
MaxListLen == 2
\* the longest command line
MaxArgs == 2
\* the cli() processes that can run at the same time
MaxProcesses == 2

----------------------------------------------------------------------------
(* Python values *)

None == "None"
NoneInt == -1

SESSION_TIMEOUT_SECONDS == 3600

Tokens == {"1", "2"}
Addresses == {"", "test@users.org", "user@test.com"}
Timestamps == 0 .. MaxTimestamp
EmailIds == {"123"}
Clock == (SESSION_TIMEOUT_SECONDS - 5 - ClockSlack)
            .. (SESSION_TIMEOUT_SECONDS - 5 + MaxTimestamp + ClockSlack)

PyNone == [type |-> "NoneType", items |-> <<>>]
PyFalse == [type |-> "bool", items |-> <<>>]
PyDict(items) == [type |-> "dict", items |-> items]

\* "not x" of Python for the data a request returns
Falsy(data) == data.type # "dict" \/ DOMAIN data.items = {}

\* "not s" of Python for a string-or-None attribute
NotStr(s) == s = None \/ s = ""

SessionKeys == {"sid_token", "email_addr", "email_timestamp"}

JsonObject(K, sid, addr, ts) ==
    [k \in K |-> CASE k = "sid_token" -> sid
                   [] k = "email_addr" -> addr
                   [] OTHER -> ts]

JsonObjects ==
    {JsonObject(K, sid, addr, ts) :
        K \in SUBSET SessionKeys, sid \in Tokens, addr \in Addresses,
        ts \in Timestamps}

\* What the remote service can answer to one GET
HttpResponses ==
    {[status |-> 500, text |-> "", json |-> PyNone],
     [status |-> 200, text |-> "", json |-> PyNone],
     [status |-> 200, text |-> "malformed", json |-> PyNone],
     [status |-> 200, text |-> "json", json |-> PyFalse]}
    \cup {[status |-> 200, text |-> "json", json |-> PyDict(o)] :
            o \in JsonObjects}

\* Raw messages as the service sends them: JSON objects of strings, the
\* first with the keys of a listing entry, the second with most keys missing
RawMails ==
    {[mail_id |-> "1", mail_subject |-> "Hello",
      mail_from |-> "user@example.com", mail_timestamp |-> "1392501749",
      mail_read |-> "0", mail_excerpt |-> "Hi there...."],
     [mail_id |-> "2", mail_read |-> "1"]}

\* the values of the "list" key: sequences of different raw messages
Lists ==
    {l \in UNION {[1 .. n -> RawMails] : n \in 0 .. MaxListLen} :
        \A i, j \in DOMAIN l : i # j => l[i] # l[j]}

\* the session keys that come with a listing or with a message: none, or
\* the token
PayloadObjects == {o \in JsonObjects : DOMAIN o \subseteq {"sid_token"}}

\* What the service can answer to get_email_list: any of HttpResponses (no
\* "list" key), or a JSON object with a "list" key
ListResponses ==
    HttpResponses
    \cup {[status |-> 200, text |-> "json",
           json |-> PyDict(o @@ [list |-> l])] :
            o \in PayloadObjects, l \in Lists}

\* What the service can answer to fetch_email: any of HttpResponses, or a
\* JSON object with the keys of a message
FetchResponses ==
    HttpResponses
    \cup {[status |-> 200, text |-> "json", json |-> PyDict(o @@ raw)] :
            o \in PayloadObjects, raw \in RawMails}

----------------------------------------------------------------------------
(* Exceptions *)

NoError == "NoError"
RequestFailed == "GuerrillaMailException: Request failed"
\* 'Not found: ' + str(email_id)
NotFound(email_id) == "GuerrillaMailException: Not found: " \o email_id
SessionUnavailable == "GuerrillaMailException: Failed to obtain session id"
ValueError == "ValueError"
TypeError == "TypeError"
\* parser.error() of argparse exits the process
SystemExit == "SystemExit"

----------------------------------------------------------------------------
(* GuerrillaMailClient.  What a client method gives back to the session:  *)
(* the exception it raised or the data it returned, with the query         *)
(* parameters of the GET it sent and the answer it got, if it sent one.    *)

client_ip == "127.0.0.1"

NoRequest == <<>>
NoAnswer == [status |-> 0, text |-> "", json |-> PyNone]

Raises(e) == [raised |-> e, data |-> PyNone,
              request |-> NoRequest, answer |-> NoAnswer]
Returns(d) == [raised |-> NoError, data |-> d,
               request |-> NoRequest, answer |-> NoAnswer]

\* the outcome r of a request sent with the query parameters sent and
\* answered by http
Sent(r, sent, http) == [raised |-> r.raised, data |-> r.data,
                        request |-> sent, answer |-> http]

\* "%s" % v of the values the client formats: a string stays as it is,
\* None reads 'None' (the string that stands for None here), 0 reads '0'
StrOffset(offset) == CASE offset = 0 -> "0"

\* Variant: the sid_token parameter is always added
_do_request_always_token(sid, parameters, http) ==
    LET sent == parameters @@ [ip |-> client_ip, sid_token |-> sid]
    IN Sent(IF http.status # 200 THEN Raises(RequestFailed)
            ELSE IF http.text = "" THEN Returns(PyNone)
            ELSE IF http.text = "malformed" THEN Raises(ValueError)
            ELSE Returns(http.json), sent, http)

\* Variant: the HTTP status is not looked at
_do_request_any_status(sid, parameters, http) ==
    LET with_ip == parameters @@ [ip |-> client_ip]
        sent == IF sid # None
                THEN with_ip @@ [sid_token |-> sid] ELSE with_ip
    IN Sent(IF http.text = "" THEN Returns(PyNone)
            ELSE IF http.text = "malformed" THEN Raises(ValueError)
            ELSE Returns(http.json), sent, http)

\* json.loads raises a ValueError on a body that is not JSON; it is not
\* caught here
_do_request(sid, parameters, http) ==
    LET with_ip == parameters @@ [ip |-> client_ip]
        sent == IF sid # None
                THEN with_ip @@ [sid_token |-> sid] ELSE with_ip
    IN Sent(IF http.status # 200 THEN Raises(RequestFailed)
            ELSE IF http.text = "" THEN Returns(PyNone)
            ELSE IF http.text = "malformed" THEN Raises(ValueError)
            ELSE Returns(http.json), sent, http)

client_get_email_address(sid, http) ==
    _do_request(sid, [f |-> "get_email_address"], http)

client_get_email_list(sid, offset, http) ==
    IF sid = None THEN Raises(ValueError)
    ELSE _do_request(sid, [offset |-> StrOffset(offset),
                           f |-> "get_email_list"], http)

\* "if not response_data: raise ... 'Not found: ' + str(email_id)"
data_or_not_found(email_id, http, response_data) ==
    IF response_data.raised # NoError THEN response_data
    ELSE IF Falsy(response_data.data)
    THEN Sent(Raises(NotFound(email_id)), response_data.request, http)
    ELSE response_data

\* Variant: the message does not name the requested id
client_get_email_anonymous(email_id, sid, http) ==
    data_or_not_found("", http,
        _do_request(sid, [email_id |-> email_id, f |-> "fetch_email"], http))

client_get_email(email_id, sid, http) ==
    data_or_not_found(email_id, http,
        _do_request(sid, [email_id |-> email_id, f |-> "fetch_email"], http))

client_set_email_address(address_local_part, sid, http) ==
    _do_request(sid, [email_user |-> address_local_part,
                      f |-> "set_email_user"], http)

\* the parameter name is 'email_ids%5B%5D', the encoded 'email_ids[]'
client_del_email(email_idx, sid, http) ==
    _do_request(sid, [email_ids |-> email_idx, f |-> "del_email"], http)

client_forget_me(address, sid, http) ==
    _do_request(sid, [email_addr |-> address, f |-> "forget_me"], http)

\* getattr(self.client, method_name)(session_id=self.session_id, *args,
\* **kwargs)
client_method(method_name, sid, args, http) ==
    CASE method_name = "get_email_address" -> client_get_email_address(sid, http)
      [] method_name = "get_email_list" ->
            client_get_email_list(sid, args.offset, http)
      [] method_name = "get_email" -> client_get_email(args.email_id, sid, http)
      [] method_name = "set_email_address" ->
            client_set_email_address(args.address_local_part, sid, http)
      [] method_name = "del_email" -> client_del_email(args.email_idx, sid, http)
      [] method_name = "forget_me" ->
            client_forget_me(args.email_address, sid, http)

----------------------------------------------------------------------------
(* Mail *)

\* bool is a subclass of int: False == 0
False == 0

\* int(x) of the digit strings the raw messages carry
int(x) ==
    CASE x = "0" -> 0
      [] x = "1" -> 1
      [] x = "1392501749" -> 1392501749

\* datetime.utcfromtimestamp(int(x)).replace(tzinfo=utc)
utc_datetime(x) ==
    [type |-> "datetime", items |-> [timestamp |-> int(x), tzinfo |-> "UTC"]]

\* Variant: excerpt is read from the misspelt key
key_map_exerpt ==
    [guid |-> [old_key |-> "mail_id", transform_fn |-> "identity"],
     subject |-> [old_key |-> "mail_subject", transform_fn |-> "identity"],
     sender |-> [old_key |-> "mail_from", transform_fn |-> "identity"],
     datetime |-> [old_key |-> "mail_timestamp", transform_fn |-> "datetime"],
     read |-> [old_key |-> "mail_read", transform_fn |-> "int"],
     excerpt |-> [old_key |-> "mail_exerpt", transform_fn |-> "identity"],
     body |-> [old_key |-> "mail_body", transform_fn |-> "identity"]]

\* new_key |-> (old_key, transform_fn)
key_map ==
    [guid |-> [old_key |-> "mail_id", transform_fn |-> "identity"],
     subject |-> [old_key |-> "mail_subject", transform_fn |-> "identity"],
     sender |-> [old_key |-> "mail_from", transform_fn |-> "identity"],
     datetime |-> [old_key |-> "mail_timestamp", transform_fn |-> "datetime"],
     read |-> [old_key |-> "mail_read", transform_fn |-> "int"],
     excerpt |-> [old_key |-> "mail_excerpt", transform_fn |-> "identity"],
     body |-> [old_key |-> "mail_body", transform_fn |-> "identity"]]

transform(transform_fn, x) ==
    CASE transform_fn = "identity" -> x
      [] transform_fn = "datetime" -> utc_datetime(x)
      [] transform_fn = "int" -> int(x)

\* a missing old key raises KeyError, which is passed over
_transform_dict(original, map) ==
    [new_key \in {k \in DOMAIN map : map[k].old_key \in DOMAIN original} |->
        transform(map[new_key].transform_fn, original[map[new_key].old_key])]

Keyword(kwargs, name, default) ==
    IF name \in DOMAIN kwargs THEN kwargs[name] ELSE default

\* Mail.__init__: the legacy exerpt attribute is always None
Mail(kwargs) ==
    [guid |-> Keyword(kwargs, "guid", None),
     subject |-> Keyword(kwargs, "subject", None),
     sender |-> Keyword(kwargs, "sender", None),
     datetime |-> Keyword(kwargs, "datetime", PyNone),
     read |-> Keyword(kwargs, "read", False),
     exerpt |-> None,
     excerpt |-> Keyword(kwargs, "excerpt", None),
     body |-> Keyword(kwargs, "body", None)]

from_response(response_data) == Mail(_transform_dict(response_data, key_map))

----------------------------------------------------------------------------
(* GuerrillaMailSession: a run of a method is a record m that carries the  *)
(* session record, the client calls made so far, the is_expired evaluation *)
(* and the exception raised, if any.                                       *)

Record(sid, addr, ts) ==
    [session_id |-> sid, email_address |-> addr, email_timestamp |-> ts]

NoExpiry == [checked |-> FALSE, now |-> 0, timestamp |-> 0, result |-> FALSE]

Enter(s) == [session |-> s, calls |-> <<>>, expiry |-> NoExpiry,
             error |-> NoError, value |-> None]

\* Variant: a response without sid_token clears the token
_update_session_state_clearing_token(s, response_data) ==
    IF response_data.type # "dict" THEN [session |-> s, error |-> TypeError]
    ELSE LET d == response_data.items IN
         [session |->
            Record(IF "sid_token" \in DOMAIN d THEN d.sid_token ELSE None,
                   IF "email_addr" \in DOMAIN d THEN d.email_addr
                   ELSE s.email_address,
                   IF "email_timestamp" \in DOMAIN d THEN d.email_timestamp
                   ELSE s.email_timestamp),
          error |-> NoError]

\* Variant: a response without email_addr clears the address
_update_session_state_clearing_address(s, response_data) ==
    IF response_data.type # "dict" THEN [session |-> s, error |-> TypeError]
    ELSE LET d == response_data.items IN
         [session |->
            Record(IF "sid_token" \in DOMAIN d THEN d.sid_token
                   ELSE s.session_id,
                   IF "email_addr" \in DOMAIN d THEN d.email_addr ELSE None,
                   IF "email_timestamp" \in DOMAIN d THEN d.email_timestamp
                   ELSE s.email_timestamp),
          error |-> NoError]

\* Variant: the address on record is never replaced
_update_session_state_keeping_address(s, response_data) ==
    IF response_data.type # "dict" THEN [session |-> s, error |-> TypeError]
    ELSE LET d == response_data.items IN
         [session |->
            Record(IF "sid_token" \in DOMAIN d THEN d.sid_token
                   ELSE s.session_id,
                   IF "email_addr" \in DOMAIN d /\ NotStr(s.email_address)
                   THEN d.email_addr ELSE s.email_address,
                   IF "email_timestamp" \in DOMAIN d THEN d.email_timestamp
                   ELSE s.email_timestamp),
          error |-> NoError]

\* response_data[...] raises TypeError on None and on False, before any
\* attribute is assigned
_update_session_state(s, response_data) ==
    IF response_data.type # "dict" THEN [session |-> s, error |-> TypeError]
    ELSE LET d == response_data.items IN
         [session |->
            Record(IF "sid_token" \in DOMAIN d THEN d.sid_token
                   ELSE s.session_id,
                   IF "email_addr" \in DOMAIN d THEN d.email_addr
                   ELSE s.email_address,
                   IF "email_timestamp" \in DOMAIN d THEN d.email_timestamp
                   ELSE s.email_timestamp),
          error |-> NoError]

_scrub_state(s) == Record(None, None, NoneInt)

\* Variant: strict comparison
is_expired_strict(timestamp, current_time) ==
    LET expiry_time == timestamp + SESSION_TIMEOUT_SECONDS - 5 IN
    current_time > expiry_time

\* Variant: no safety margin
is_expired_no_margin(timestamp, current_time) ==
    LET expiry_time == timestamp + SESSION_TIMEOUT_SECONDS IN
    current_time >= expiry_time

is_expired(timestamp, current_time) ==
    LET expiry_time == timestamp + SESSION_TIMEOUT_SECONDS - 5 IN
    current_time >= expiry_time

\* Variant: forget_me scrubs the session whether or not the client method
\* raised
after_response_scrubbing_regardless(s, method_name, response, passed) ==
    IF method_name = "forget_me"
    THEN [session |-> _scrub_state(s), error |-> response.raised]
    ELSE IF response.raised # NoError
    THEN [session |-> s, error |-> response.raised]
    ELSE IF method_name \in passed
    THEN [session |-> s, error |-> NoError]
    ELSE _update_session_state(s, response.data)

\* the session after the client method answered response: an exception
\* leaves it as it was, forget_me scrubs it, the methods of passed leave it
\* as it was, every other method updates it from the response
after_response(s, method_name, response, passed) ==
    IF response.raised # NoError
    THEN [session |-> s, error |-> response.raised]
    ELSE IF method_name = "forget_me"
    THEN [session |-> _scrub_state(s), error |-> NoError]
    ELSE IF method_name \in passed
    THEN [session |-> s, error |-> NoError]
    ELSE _update_session_state(s, response.data)

\* the run m with the call recorded and the session as upd has it
recorded(m, method_name, args, response, upd) ==
    [m EXCEPT !.session = upd.session,
              !.calls = Append(m.calls,
                  [method |-> method_name, session_id |-> m.session.session_id,
                   args |-> args, request |-> response.request,
                   answer |-> response.answer, raised |-> response.raised,
                   data |-> response.data, before |-> m.session,
                   after |-> upd.session]),
              !.error = upd.error]

called(m, method_name, args, response, passed) ==
    recorded(m, method_name, args, response,
             after_response(m.session, method_name, response, passed))

\* Variant: the response of del_email updates the session like any other
_delegate_to_client_updating_delete(m, method_name, args, http) ==
    called(m, method_name, args,
           client_method(method_name, m.session.session_id, args, http), {})

\* Variant: the client method is not given the token of the session
_delegate_to_client_without_token(m, method_name, args, http) ==
    called(m, method_name, args,
           client_method(method_name, None, args, http), {"del_email"})

_delegate_to_client(m, method_name, args, http) ==
    called(m, method_name, args,
           client_method(method_name, m.session.session_id, args, http),
           {"del_email"})

\* Variant: a renewal always asks for a new mailbox
_renew_session_new_mailbox(m, http) ==
    _delegate_to_client(m, "get_email_address", <<>>, http)

_renew_session(m, http) ==
    IF ~NotStr(m.session.email_address)
    THEN _delegate_to_client(m, "set_email_address",
            [address_local_part |-> m.session.email_address], http)
    ELSE _delegate_to_client(m, "get_email_address", <<>>, http)

\* Variant: the expiry of the session is not looked at
renewal_needed_ignoring_expiry(s, fully_populate, expired) ==
    \/ s.session_id = None
    \/ (fully_populate /\ NotStr(s.email_address))

\* Variant: every mailbox operation renews the session first
renewal_needed_always(s, fully_populate, expired) == TRUE

\* Variant: a missing address is a reason to renew for every operation
renewal_needed_unpopulated(s, fully_populate, expired) ==
    \/ s.session_id = None
    \/ expired
    \/ NotStr(s.email_address)

\* "session_id is None or self.is_expired() or fully_populate and not
\* self.email_address"; expired is only looked at when a token is held
renewal_needed(s, fully_populate, expired) ==
    \/ s.session_id = None
    \/ expired
    \/ (fully_populate /\ NotStr(s.email_address))

\* the run m with the evaluation of is_expired(), made when a token is held
evaluated(m, current_time) ==
    IF m.session.session_id = None THEN m
    ELSE [m EXCEPT !.expiry =
            [checked |-> TRUE, now |-> current_time,
             timestamp |-> m.session.email_timestamp,
             result |-> is_expired(m.session.email_timestamp, current_time)]]

\* "if ...: self._renew_session()"
renewed_if_needed(m, fully_populate, http) ==
    IF renewal_needed(m.session, fully_populate, m.expiry.result)
    THEN _renew_session(m, http) ELSE m

\* "if self.session_id is None: raise ..."
token_checked(m) ==
    IF m.error # NoError THEN m
    ELSE IF m.session.session_id = None
    THEN [m EXCEPT !.error = SessionUnavailable]
    ELSE m

\* Variant: the token is not checked after the renewal
_ensure_valid_session_unchecked(m, fully_populate, current_time, http) ==
    IF m.session.session_id # None /\ m.session.email_timestamp = NoneInt
    THEN [m EXCEPT !.error = TypeError]
    ELSE renewed_if_needed(evaluated(m, current_time), fully_populate, http)

\* The condition is evaluated left to right: is_expired() runs only when a
\* token is held, and raises TypeError when email_timestamp is None
_ensure_valid_session(m, fully_populate, current_time, http) ==
    IF m.session.session_id # None /\ m.session.email_timestamp = NoneInt
    THEN [m EXCEPT !.error = TypeError]
    ELSE token_checked(
            renewed_if_needed(evaluated(m, current_time), fully_populate,
                              http))

\* Variant: the delegated call is made whatever _ensure_valid_session did
then_delegate_regardless(m, method_name, args, http) ==
    _delegate_to_client(m, method_name, args, http)

\* the delegated call is made unless _ensure_valid_session raised
then_delegate(m, method_name, args, http) ==
    IF m.error # NoError THEN m
    ELSE _delegate_to_client(m, method_name, args, http)

\* a mailbox operation: _ensure_valid_session, then one delegated call
EnsureThenDelegate(s, method_name, args, current_time, http1, http2) ==
    then_delegate(
        _ensure_valid_session(Enter(s), FALSE, current_time, http1),
        method_name, args, http2)

\* Variant: full population is not asked for
get_session_state_unpopulated(s, current_time, http) ==
    _ensure_valid_session(Enter(s), FALSE, current_time, http)

\* Variant: the address is asked for again after the session was ensured
get_session_state_asking_again(s, current_time, http) ==
    then_delegate(_ensure_valid_session(Enter(s), TRUE, current_time, http),
                  "get_email_address", <<>>, http)

get_session_state(s, current_time, http) ==
    _ensure_valid_session(Enter(s), TRUE, current_time, http)

\* Variant: the recorded address is sent instead of the given one
set_email_address_recorded(s, address_local_part, http) ==
    _delegate_to_client(Enter(s), "set_email_address",
        [address_local_part |-> s.email_address], http)

set_email_address(s, address_local_part, http) ==
    _delegate_to_client(Enter(s), "set_email_address",
        [address_local_part |-> address_local_part], http)

\* the data the last client call of m returned
response_data_of(m) == m.calls[Len(m.calls)].data.items

\* [Mail.from_response(e) for e in email_list]
from_responses(list) == [i \in 1 .. Len(list) |-> from_response(list[i])]

\* response_data['list'] raises KeyError without the key
email_list_subscript(m) ==
    IF m.error # NoError THEN m
    ELSE IF "list" \notin DOMAIN response_data_of(m)
    THEN [m EXCEPT !.error = "KeyError"]
    ELSE [m EXCEPT !.value = from_responses(response_data_of(m).list)]

\* response_data.get('list') is None without the key; None and [] both
\* give []
email_list(m) ==
    IF m.error # NoError THEN m
    ELSE IF "list" \in DOMAIN response_data_of(m)
            /\ response_data_of(m).list # <<>>
    THEN [m EXCEPT !.value = from_responses(response_data_of(m).list)]
    ELSE [m EXCEPT !.value = <<>>]

\* Mail.from_response(response_data)
fetched_email(m) ==
    IF m.error # NoError THEN m
    ELSE [m EXCEPT !.value = from_response(response_data_of(m))]

\* Variant: the "list" key is subscripted, a response without it raises
\* KeyError
get_email_list_subscript(s, offset, current_time, http1, http2) ==
    email_list_subscript(
        EnsureThenDelegate(s, "get_email_list", [offset |-> offset],
                           current_time, http1, http2))

get_email_list(s, offset, current_time, http1, http2) ==
    email_list(
        EnsureThenDelegate(s, "get_email_list", [offset |-> offset],
                           current_time, http1, http2))

get_email(s, email_id, current_time, http1, http2) ==
    fetched_email(
        EnsureThenDelegate(s, "get_email", [email_id |-> email_id],
                           current_time, http1, http2))

delete_email(s, email_idx, current_time, http1, http2) ==
    EnsureThenDelegate(s, "del_email", [email_idx |-> email_idx],
                       current_time, http1, http2)

forget_me(s, http) ==
    _delegate_to_client(Enter(s), "forget_me",
        [email_address |-> s.email_address], http)

----------------------------------------------------------------------------
(* Command line: the settings file, the commands and cli()                 *)

SETTINGS_FILE == "~/.guerrillamail"

\* the file does not exist: open() raises IOError
NoFile == [path |-> SETTINGS_FILE, exists |-> FALSE]

\* {}
EmptyDict == [key \in {} |-> None]

\* json.dump of the value of a settings key: null for None, the digits of
\* an int, a quoted string
json_dump(key, x) ==
    IF key = "email_timestamp"
    THEN IF x = NoneInt THEN "null" ELSE ToString(x)
    ELSE IF x = None THEN "null" ELSE "\"" \o x \o "\""

\* json.load of such a text: the value whose text it is
json_load(key, text) ==
    IF key = "email_timestamp"
    THEN IF text = "null" THEN NoneInt
         ELSE CHOOSE n \in Timestamps : ToString(n) = text
    ELSE IF text = "null" THEN None
         ELSE CHOOSE x \in Tokens \cup Addresses : "\"" \o x \o "\"" = text

load_settings(file) ==
    IF ~file.exists THEN EmptyDict
    ELSE [key \in DOMAIN file.text |-> json_load(key, file.text[key])]

save_settings(settings) ==
    [path |-> SETTINGS_FILE, exists |-> TRUE,
     text |-> [key \in DOMAIN settings |-> json_dump(key, settings[key])]]

\* GuerrillaMailSession(**settings)
GuerrillaMailSession(settings) ==
    Record(Keyword(settings, "session_id", None),
           Keyword(settings, "email_address", None),
           Keyword(settings, "email_timestamp", 0))

\* Variant: the timestamp is not put into the settings
update_settings_without_timestamp(settings, session) ==
    [key \in DOMAIN settings \cup {"session_id", "email_address"} |->
        CASE key = "session_id" -> session.session_id
          [] key = "email_address" -> session.email_address
          [] OTHER -> settings[key]]

update_settings(settings, session) ==
    [key \in DOMAIN settings
              \cup {"session_id", "email_timestamp", "email_address"} |->
        CASE key = "session_id" -> session.session_id
          [] key = "email_timestamp" -> session.email_timestamp
          [] key = "email_address" -> session.email_address
          [] OTHER -> settings[key]]

\* the instances of GuerrillaMailException the code raises
GuerrillaMailExceptions ==
    {RequestFailed, SessionUnavailable} \cup {NotFound(i) : i \in EmailIds}

\* the exceptions "except GuerrillaMailException" catches
GuerrillaMailException(e) == e \in GuerrillaMailExceptions

\* e.message
message(e) ==
    CASE e = RequestFailed -> "Request failed"
      [] e = SessionUnavailable -> "Failed to obtain session id"
      [] OTHER -> "Not found: " \o (CHOOSE i \in EmailIds : e = NotFound(i))

\* a string a command returns; a command that returns nothing returns
\* PyNone
Output(x) == [type |-> "str", items |-> x]

\* Variant: the time of day is always given the UTC tzinfo
time_utc(mail) ==
    IF mail.datetime.type = "NoneType" THEN PyNone
    ELSE [type |-> "time",
          items |-> [seconds |-> mail.datetime.items.timestamp % 86400,
                     tzinfo |-> "UTC"]]

\* Mail.time: the time of day of the datetime, with its tzinfo
time(mail) ==
    IF mail.datetime.type = "NoneType" THEN PyNone
    ELSE [type |-> "time",
          items |-> [seconds |-> mail.datetime.items.timestamp % 86400,
                     tzinfo |-> mail.datetime.items.tzinfo]]

\* the fields of a summary line
format_email_summary(email) ==
    [unread_indicator |-> IF email.read = 0 THEN "*" ELSE " ",
     guid |-> email.guid, time |-> time(email), sender |-> email.sender,
     subject |-> email.subject]

\* the fields of a displayed message
format_email(email) ==
    [sender |-> email.sender, datetime |-> email.datetime,
     subject |-> email.subject, body |-> email.body]

\* 'Email: ' + session.get_session_state()['email_address']; 'Email: ' +
\* None raises TypeError
info_output(m) ==
    IF m.error # NoError THEN m
    ELSE IF m.session.email_address = None THEN [m EXCEPT !.error = TypeError]
    ELSE [m EXCEPT !.value = Output("Email: " \o m.session.email_address)]

\* invoke returns nothing
no_output(m) ==
    IF m.error # NoError THEN m ELSE [m EXCEPT !.value = PyNone]

\* the summary lines of the messages
list_output(m) ==
    IF m.error # NoError THEN m
    ELSE [m EXCEPT !.value =
            Output([i \in 1 .. Len(m.value) |->
                        format_email_summary(m.value[i])])]

\* self.format_email(email)
email_output(m) ==
    IF m.error # NoError THEN m
    ELSE [m EXCEPT !.value = Output(format_email(m.value))]

GetInfoCommand(session, args, current_time, http1, http2) ==
    info_output(get_session_state(session, current_time, http1))

SetAddressCommand(session, args, current_time, http1, http2) ==
    no_output(set_email_address(session, args.address, http1))

ListEmailCommand(session, args, current_time, http1, http2) ==
    list_output(get_email_list(session, 0, current_time, http1, http2))

GetEmailCommand(session, args, current_time, http1, http2) ==
    email_output(get_email(session, args.id, current_time, http1, http2))

COMMAND_TYPES == {"info", "setaddr", "list", "get"}

\* Command.name |-> the class
CommandClass ==
    [info |-> "GetInfoCommand", setaddr |-> "SetAddressCommand",
     list |-> "ListEmailCommand", get |-> "GetEmailCommand"]

\* Command.params: the names of the positional arguments of a command
params(command) ==
    CASE command = "setaddr" -> <<"address">>
      [] command = "get" -> <<"id">>
      [] OTHER -> <<>>

\* argparse with a required subcommand and the positional arguments of each
\* command: a missing or unknown command, a missing argument and an
\* argument too many end in parser.error()
parse_args(args) ==
    IF \/ args = <<>>
       \/ args[1] \notin COMMAND_TYPES
       \/ Len(args) # 1 + Len(params(args[1]))
    THEN [raised |-> SystemExit, namespace |-> PyNone]
    ELSE [raised |-> NoError,
          namespace |->
            [name \in {"command"} \cup {params(args[1])[i] :
                                          i \in 1 .. Len(params(args[1]))} |->
                IF name = "command" THEN args[1] ELSE args[2]]]

\* Variant: an unknown name gives the first command
get_command_first(command_name) ==
    IF command_name \in COMMAND_TYPES
    THEN [raised |-> NoError, command |-> CommandClass[command_name]]
    ELSE [raised |-> NoError, command |-> "GetInfoCommand"]

\* [C() for C in COMMAND_TYPES if C.name == command_name][0]; IndexError
\* becomes ValueError('Invalid command: ...')
get_command(command_name) ==
    IF command_name \in COMMAND_TYPES
    THEN [raised |-> NoError, command |-> CommandClass[command_name]]
    ELSE [raised |-> ValueError, command |-> None]

\* get_command(args.command).invoke(session, args)
invoke(session, args, current_time, http1, http2) ==
    CASE args.command = "info" ->
            GetInfoCommand(session, args, current_time, http1, http2)
      [] args.command = "setaddr" ->
            SetAddressCommand(session, args, current_time, http1, http2)
      [] args.command = "list" ->
            ListEmailCommand(session, args, current_time, http1, http2)
      [] args.command = "get" ->
            GetEmailCommand(session, args, current_time, http1, http2)

\* cli() after the command ended as m: an exception is printed to stderr when
\* it is a GuerrillaMailException, the output is printed when there is no
\* exception, and the settings are updated and saved when the command ended
\* with one of the outcomes of saving (else the exception has left cli())
ended(file, settings, session, m, saving) ==
    [run |-> m, loaded |-> session, loads |-> 1,
     stderr |-> IF GuerrillaMailException(m.error) THEN message(m.error)
                ELSE None,
     stdout |-> IF m.error = NoError THEN m.value ELSE PyNone,
     propagated |-> IF m.error # NoError /\ ~GuerrillaMailException(m.error)
                    THEN m.error ELSE NoError,
     saves |-> IF m.error \in saving THEN 1 ELSE 0,
     file |-> IF m.error \in saving
              THEN save_settings(update_settings(settings, m.session))
              ELSE file]

\* cli() from "session = GuerrillaMailSession(**settings)" on, with the file
\* as it is when the settings are saved
cli_loaded(file, settings, args, current_time, http1, http2) ==
    ended(file, settings, GuerrillaMailSession(settings),
          invoke(GuerrillaMailSession(settings), args, current_time, http1,
                 http2),
          {NoError} \cup GuerrillaMailExceptions)

\* Variant: the settings are saved only when the command did not fail
cli_unsaved_on_failure(file, args, current_time, http1, http2) ==
    LET settings == load_settings(file)
        session == GuerrillaMailSession(settings)
    IN ended(file, settings, session,
             invoke(session, args, current_time, http1, http2), {NoError})

\* cli(*args) for arguments parse_args accepts.  An exception that is not a
\* GuerrillaMailException leaves cli() before update_settings and
\* save_settings.
cli(file, args, current_time, http1, http2) ==
    cli_loaded(file, load_settings(file), args, current_time, http1, http2)

----------------------------------------------------------------------------
(* The state machine *)

Current == Record(session_id, email_address, email_timestamp)

NoOp == [name |-> "none"]

\* the method named o ran from the current record and ended as m
Finish(o, m, ret) ==
    /\ pc' = "returned"
    /\ session_id' = m.session.session_id
    /\ email_address' = m.session.email_address
    /\ email_timestamp' = m.session.email_timestamp
    /\ op' = o
    /\ pre' = Current
    /\ calls' = m.calls
    /\ expiry' = m.expiry
    /\ error' = m.error
    /\ returned' = IF m.error = NoError THEN ret ELSE None
    /\ UNCHANGED <<settings_file, invocation, processes>>

\* get_session_state returns {'email_address': self.email_address}
FinishState(o, m) == Finish(o, m, m.session.email_address)

\* the method returns the value it built
FinishValue(o, m) == Finish(o, m, m.value)

\* no run of cli()
NoInvocation == [command |-> "none"]

\* the processes that can be started: nothing in the code limits them to one
Processes == 1 .. MaxProcesses

\* a process that is not running
NotRunning == [pc |-> "idle", settings |-> EmptyDict, behind |-> FALSE]

NoProcesses == [p \in Processes |-> NotRunning]

\* GuerrillaMailSession(**settings): any persisted token, address and
\* integer timestamp; the defaults are None, None and 0
Init ==
    /\ session_id \in Tokens \cup {None}
    /\ email_address \in Addresses \cup {None}
    /\ email_timestamp \in Timestamps
    /\ op = NoOp
    /\ pre = Current
    /\ calls = <<>>
    /\ expiry = NoExpiry
    /\ error = NoError
    /\ returned = None
    /\ pc = "idle"
    /\ settings_file = NoFile
    /\ invocation = NoInvocation
    /\ processes = NoProcesses

IsExpired ==
    /\ pc = "idle"
    /\ email_timestamp # NoneInt
    /\ \E current_time \in Clock :
        /\ pc' = "returned"
        /\ UNCHANGED <<session_id, email_address, email_timestamp>>
        /\ op' = [name |-> "is_expired"]
        /\ pre' = Current
        /\ calls' = <<>>
        /\ expiry' = [checked |-> TRUE, now |-> current_time,
                      timestamp |-> email_timestamp,
                      result |-> is_expired(email_timestamp, current_time)]
        /\ error' = NoError
        /\ returned' = None
        /\ UNCHANGED <<settings_file, invocation, processes>>

GetSessionState ==
    /\ pc = "idle"
    /\ \E current_time \in Clock, http \in HttpResponses :
        FinishState([name |-> "get_session_state"],
                    get_session_state(Current, current_time, http))

SetEmailAddress ==
    /\ pc = "idle"
    /\ \E address_local_part \in Addresses \ {""}, http \in HttpResponses :
        Finish([name |-> "set_email_address",
                address_local_part |-> address_local_part],
               set_email_address(Current, address_local_part, http), None)

GetEmailList ==
    /\ pc = "idle"
    /\ \E current_time \in Clock, http1 \in HttpResponses,
          http2 \in ListResponses :
        FinishValue([name |-> "get_email_list", offset |-> 0],
                    get_email_list(Current, 0, current_time, http1, http2))

GetEmail ==
    /\ pc = "idle"
    /\ \E email_id \in EmailIds, current_time \in Clock,
          http1 \in HttpResponses, http2 \in FetchResponses :
        FinishValue([name |-> "get_email", email_id |-> email_id],
                    get_email(Current, email_id, current_time, http1, http2))

DeleteEmail ==
    /\ pc = "idle"
    /\ \E email_idx \in EmailIds, current_time \in Clock,
       http1, http2 \in HttpResponses :
        Finish([name |-> "delete_email", email_idx |-> email_idx],
               delete_email(Current, email_idx, current_time, http1, http2),
               None)

ForgetMe ==
    /\ pc = "idle"
    /\ \E http \in HttpResponses :
        Finish([name |-> "forget_me"], forget_me(Current, http), None)

\* The session object keeps nothing of a finished call but its three
\* attributes: the caller takes the outcome and the next method starts from
\* the record alone.
Return ==
    /\ pc = "returned"
    /\ pc' = "idle"
    /\ UNCHANGED <<session_id, email_address, email_timestamp>>
    /\ op' = NoOp
    /\ pre' = Current
    /\ calls' = <<>>
    /\ expiry' = NoExpiry
    /\ error' = NoError
    /\ returned' = None
    /\ UNCHANGED <<settings_file, invocation, processes>>

Next ==
    \/ IsExpired
    \/ GetSessionState
    \/ SetEmailAddress
    \/ GetEmailList
    \/ GetEmail
    \/ DeleteEmail
    \/ ForgetMe
    \/ Return

Spec == Init /\ [][Next]_vars

----------------------------------------------------------------------------
(* The command line as a state machine: each step is one run of cli(), a   *)
(* process that starts from the settings file alone.                       *)

\* a run of cli() with the arguments args ended as r
Invoked(args, r) ==
    /\ args.command \in COMMAND_TYPES
    /\ pc' = "returned"
    /\ session_id' = r.run.session.session_id
    /\ email_address' = r.run.session.email_address
    /\ email_timestamp' = r.run.session.email_timestamp
    /\ op' = [name |-> "cli", args |-> args]
    /\ pre' = r.loaded
    /\ calls' = r.run.calls
    /\ expiry' = r.run.expiry
    /\ error' = r.run.error
    /\ returned' = None
    /\ settings_file' = r.file
    /\ invocation' = [command |-> args.command, loads |-> r.loads,
               saves |-> r.saves, stderr |-> r.stderr, stdout |-> r.stdout,
               propagated |-> r.propagated]
    /\ UNCHANGED processes

\* no settings file yet, no session object
InitCli ==
    /\ session_id = None
    /\ email_address = None
    /\ email_timestamp = 0
    /\ op = NoOp
    /\ pre = Current
    /\ calls = <<>>
    /\ expiry = NoExpiry
    /\ error = NoError
    /\ returned = None
    /\ pc = "idle"
    /\ settings_file = NoFile
    /\ invocation = NoInvocation
    /\ processes = NoProcesses

CliInfo ==
    /\ pc = "idle"
    /\ \E current_time \in Clock, http \in HttpResponses :
        LET args == [command |-> "info"] IN
        Invoked(args, cli(settings_file, args, current_time, http, http))

CliSetAddr ==
    /\ pc = "idle"
    /\ \E address \in Addresses \ {""}, http \in HttpResponses :
        LET args == [command |-> "setaddr", address |-> address] IN
        Invoked(args, cli(settings_file, args, 0, http, http))

CliList ==
    /\ pc = "idle"
    /\ \E current_time \in Clock, http1 \in HttpResponses,
          http2 \in ListResponses :
        LET args == [command |-> "list"] IN
        Invoked(args, cli(settings_file, args, current_time, http1, http2))

CliGet ==
    /\ pc = "idle"
    /\ \E id \in EmailIds, current_time \in Clock,
          http1 \in HttpResponses, http2 \in FetchResponses :
        LET args == [command |-> "get", id |-> id] IN
        Invoked(args, cli(settings_file, args, current_time, http1, http2))

\* The process ends: nothing of it remains but the settings file.
Exit ==
    /\ pc = "returned"
    /\ pc' = "idle"
    /\ session_id' = None
    /\ email_address' = None
    /\ email_timestamp' = 0
    /\ op' = NoOp
    /\ pre' = Record(None, None, 0)
    /\ calls' = <<>>
    /\ expiry' = NoExpiry
    /\ error' = NoError
    /\ returned' = None
    /\ invocation' = NoInvocation
    /\ UNCHANGED <<settings_file, processes>>

NextCli ==
    \/ CliInfo
    \/ CliSetAddr
    \/ CliList
    \/ CliGet
    \/ Exit

SpecCli == InitCli /\ [][NextCli]_vars

----------------------------------------------------------------------------
(* Runs of cli() at the same time.  Nothing in cli(), load_settings or      *)
(* save_settings locks the settings file or looks for another process, so  *)
(* a process can be started while another one is between its load and its  *)
(* save.  The requests of a command touch nothing the processes share: the *)
(* steps of a process are its load, and its command with the save.         *)

\* the time of the runs
ConcurrentTime == SESSION_TIMEOUT_SECONDS - 5

\* What the service answers in these runs: a refusal, or a JSON object with
\* the three session keys
ConcurrentResponses ==
    {[status |-> 500, text |-> "", json |-> PyNone]}
    \cup {[status |-> 200, text |-> "json",
           json |-> PyDict(JsonObject(SessionKeys, sid, addr, 0))] :
            sid \in Tokens, addr \in Addresses \ {""}}

\* the other loaded processes are behind the file once r has saved
overtaken(q, r) ==
    IF q.pc = "loaded" /\ r.saves = 1 THEN [q EXCEPT !.behind = TRUE] ELSE q

\* "settings = load_settings()" of the process p
LoadSettings(p) ==
    /\ processes[p].pc = "idle"
    /\ processes' = [processes EXCEPT ![p] =
            [pc |-> "loaded", settings |-> load_settings(settings_file),
             behind |-> FALSE]]
    /\ op' = [name |-> "load_settings", process |-> p]
    /\ pre' = GuerrillaMailSession(load_settings(settings_file))
    /\ session_id' = pre'.session_id
    /\ email_address' = pre'.email_address
    /\ email_timestamp' = pre'.email_timestamp
    /\ calls' = <<>>
    /\ expiry' = NoExpiry
    /\ error' = NoError
    /\ returned' = None
    /\ invocation' = NoInvocation
    /\ UNCHANGED <<pc, settings_file>>

\* the rest of cli() in the process p, which ended as r, and the end of the
\* process
Completed(p, args, r) ==
    /\ session_id' = r.run.session.session_id
    /\ email_address' = r.run.session.email_address
    /\ email_timestamp' = r.run.session.email_timestamp
    /\ op' = [name |-> "cli", args |-> args, process |-> p,
              behind |-> processes[p].behind,
              overwritten |-> GuerrillaMailSession(
                                  load_settings(settings_file))]
    /\ pre' = r.loaded
    /\ calls' = r.run.calls
    /\ expiry' = r.run.expiry
    /\ error' = r.run.error
    /\ returned' = None
    /\ settings_file' = r.file
    /\ invocation' = [command |-> args.command, loads |-> r.loads,
               saves |-> r.saves, stderr |-> r.stderr, stdout |-> r.stdout,
               propagated |-> r.propagated]
    /\ processes' = [q \in Processes |->
            IF q = p THEN NotRunning ELSE overtaken(processes[q], r)]
    /\ UNCHANGED pc

ConcurrentInfo(p) ==
    /\ processes[p].pc = "loaded"
    /\ \E http \in ConcurrentResponses :
        Completed(p, [command |-> "info"],
                  cli_loaded(settings_file, processes[p].settings,
                             [command |-> "info"], ConcurrentTime, http,
                             http))

ConcurrentSetAddr(p) ==
    /\ processes[p].pc = "loaded"
    /\ \E address \in Addresses \ {""}, http \in ConcurrentResponses :
        Completed(p, [command |-> "setaddr", address |-> address],
                  cli_loaded(settings_file, processes[p].settings,
                             [command |-> "setaddr", address |-> address],
                             ConcurrentTime, http, http))

NextConcurrent ==
    \E p \in Processes :
        \/ LoadSettings(p)
        \/ ConcurrentInfo(p)
        \/ ConcurrentSetAddr(p)

SpecConcurrent == InitCli /\ [][NextConcurrent]_vars

----------------------------------------------------------------------------
(* The functions that use no session, as a state machine: each step        *)
(* applies one of them to an input, op holds the input and returned the    *)
(* result.                                                                 *)

\* the text in a raw message under each key the service sends, and under
\* two keys Mail does not know
RawValue ==
    [mail_id |-> "1", mail_subject |-> "Hello",
     mail_from |-> "user@example.com", mail_timestamp |-> "1392501749",
     mail_read |-> "0", mail_excerpt |-> "Hi there....",
     mail_body |-> "A brief message", mail_recipient |-> "john",
     mail_exerpt |-> "A brief message...."]

\* raw messages with any of these keys, read or unread
RawResponses ==
    UNION {{[key \in K |-> IF key = "mail_read" THEN r ELSE RawValue[key]] :
                r \in {"0", "1"}} : K \in SUBSET DOMAIN RawValue}

\* datetime objects: naive (tzinfo None) and aware ones, 19:34 being 70440
\* seconds into its day
Datetimes ==
    {[type |-> "datetime", items |-> [timestamp |-> t, tzinfo |-> tz]] :
        t \in {0, 70440, 1392501749}, tz \in {None, "UTC"}}

\* words of a command line
Words == {"info", "address", "setaddr", "list", "get", "cheese", "123"}

\* command lines of at most MaxArgs words
Argvs == UNION {[1 .. n -> Words] : n \in 0 .. MaxArgs}

\* the function named in o gave ret, or raised e
Applied(o, e, ret) ==
    /\ pc' = "returned"
    /\ op' = o
    /\ error' = e
    /\ returned' = ret
    /\ UNCHANGED <<session_id, email_address, email_timestamp, pre, calls,
                   expiry, settings_file, invocation, processes>>

FromResponse ==
    /\ pc = "idle"
    /\ \E response_data \in RawResponses :
        Applied([name |-> "from_response", response_data |-> response_data],
                NoError, from_response(response_data))

NewMail ==
    /\ pc = "idle"
    /\ \E datetime \in Datetimes \cup {PyNone} :
        Applied([name |-> "Mail", kwargs |-> [datetime |-> datetime]],
                NoError, Mail([datetime |-> datetime]))

\* mail.time of the Mail just made
MailTime ==
    /\ pc = "returned"
    /\ op.name \in {"from_response", "Mail"}
    /\ Applied([name |-> "time", mail |-> returned], NoError, time(returned))

ParsedArgs(args, parsed) ==
    Applied([name |-> "parse_args", args |-> args], parsed.raised,
            parsed.namespace)

ParseArgs ==
    /\ pc = "idle"
    /\ \E args \in Argvs : ParsedArgs(args, parse_args(args))

GotCommand(command_name, got) ==
    Applied([name |-> "get_command", command_name |-> command_name],
            got.raised, got.command)

GetCommand ==
    /\ pc = "idle"
    /\ \E command_name \in Words :
        GotCommand(command_name, get_command(command_name))

NextPure ==
    \/ FromResponse
    \/ NewMail
    \/ MailTime
    \/ ParseArgs
    \/ GetCommand
    \/ Return

SpecPure == InitCli /\ [][NextPure]_vars

----------------------------------------------------------------------------
(* Vocabulary of the properties.  They are stated on the outcome of the    *)
(* method that ran last: op, pre, calls, expiry, error, returned and the   *)
(* session record it left.                                                 *)

MailboxOps == {"get_email_list", "get_email", "delete_email"}
EnsureOps == MailboxOps \cup {"get_session_state"}
RenewalMethods == {"get_email_address", "set_email_address"}

\* the client method a mailbox operation asks for
Requested(name) ==
    CASE name = "get_email_list" -> "get_email_list"
      [] name = "get_email" -> "get_email"
      [] name = "delete_email" -> "del_email"
      [] OTHER -> "none"

Methods(cs) == {cs[i].method : i \in 1 .. Len(cs)}
RenewalCalls(cs) == {i \in 1 .. Len(cs) : cs[i].method \in RenewalMethods}

\* the session held a token on entry and the clock read by the method says
\* whether that token is expired
TokenExpired ==
    /\ pre.session_id # None
    /\ expiry.checked
    /\ expiry.now >= expiry.timestamp + 3600 - 5

TokenCurrent ==
    /\ pre.session_id # None
    /\ expiry.checked
    /\ expiry.now < expiry.timestamp + 3600 - 5

AddressOnRecord == pre.email_address # None /\ pre.email_address # ""

\* the method had to renew the session on entry
RenewalDue ==
    /\ op.name \in EnsureOps
    /\ \/ pre.session_id = None
       \/ TokenExpired
       \/ (op.name = "get_session_state" /\ TokenCurrent /\ ~AddressOnRecord)

\* the client call returned a JSON object
Answered(c) == c.raised = NoError /\ c.data.type = "dict"

\* the value of a session attribute after a response: the value the
\* response carries under key, or else the old value
Carried(d, key, old) == IF key \in DOMAIN d THEN d[key] ELSE old

----------------------------------------------------------------------------
C2_NoRenewalWhileCurrent ==
    /\ (op.name \in MailboxOps /\ TokenCurrent)
       => /\ RenewalCalls(calls) = {}
          /\ Len(calls) = 1
          /\ calls[1].method = Requested(op.name)
    /\ (op.name = "get_session_state" /\ TokenCurrent /\ AddressOnRecord)
       => /\ calls = <<>>
          /\ error = NoError
          /\ returned = pre.email_address

C2_Witness ==
    /\ op.name = "get_session_state"
    /\ TokenCurrent
    /\ AddressOnRecord
    /\ returned = "test@users.org"

\* C3: a renewal of a session with a mailbox address on record is the
\* set_email_address call with exactly that address, and no
\* get_email_address call is made; a renewal of a session with no address
\* on record is the get_email_address call, and no set_email_address call
\* is made.
C3_RenewalReusesAddress ==
    RenewalDue
    => /\ Len(calls) >= 1
       /\ IF AddressOnRecord
          THEN /\ calls[1].method = "set_email_address"
               /\ calls[1].args.address_local_part = pre.email_address
               /\ "get_email_address" \notin Methods(calls)
          ELSE /\ calls[1].method = "get_email_address"
               /\ "set_email_address" \notin Methods(calls)

C3_Witness ==
    /\ RenewalDue
    /\ TokenExpired
    /\ pre.email_address = "user@test.com"
    /\ Len(calls) = 2
    /\ calls[1].method = "set_email_address"
    /\ calls[1].args.address_local_part = "user@test.com"

\* C4: when the renewal call has returned and the session still holds no
\* token, the method fails with 'Failed to obtain session id', the
\* requested call is not issued and no second renewal is made: the renewal
\* is the only call.
C4_NoTokenAfterRenewalFails ==
    (/\ op.name \in EnsureOps
     /\ Len(calls) >= 1
     /\ calls[1].method \in RenewalMethods
     /\ Answered(calls[1])
     /\ calls[1].after.session_id = None)
    => /\ error = SessionUnavailable
       /\ Len(calls) = 1
       /\ session_id = None

C4_Witness ==
    /\ op.name = "get_email_list"
    /\ pre.session_id = None
    /\ Len(calls) = 1
    /\ calls[1].method = "get_email_address"
    /\ Answered(calls[1])
    /\ error = SessionUnavailable

\* the first call of the method was the plain get_email_address renewal of
\* a session with no address on record, answered without sid_token
RenewalAnsweredWithoutToken ==
    /\ RenewalDue
    /\ ~AddressOnRecord
    /\ Len(calls) >= 1
    /\ calls[1].method = "get_email_address"
    /\ Answered(calls[1])
    /\ "sid_token" \notin DOMAIN calls[1].data.items

\* C5 as stated: every renewal made with no address on record and answered
\* without a token makes the operation fail with 'Failed to obtain session
\* id', from a session that held no token and from an expired session that
\* still holds its old token alike.
C5_Original == RenewalAnsweredWithoutToken => error = SessionUnavailable

\* C5 amended: such a renewal makes the operation fail with 'Failed to
\* obtain session id' exactly when the session held no token before it; a
\* session that still holds its old token keeps it, does not fail with that
\* error, and a mailbox operation goes on to the requested call with the
\* old token.
C5_TokenlessRenewalFailsOnlyWhenFresh ==
    RenewalAnsweredWithoutToken
    => IF pre.session_id = None
       THEN error = SessionUnavailable /\ Len(calls) = 1
       ELSE /\ error # SessionUnavailable
            /\ calls[1].after.session_id = pre.session_id
            /\ op.name = "get_session_state" => error = NoError
            /\ op.name \in MailboxOps
               => /\ Len(calls) = 2
                  /\ calls[2].method = Requested(op.name)
                  /\ calls[2].session_id = pre.session_id

C5_Witness ==
    /\ RenewalAnsweredWithoutToken
    /\ TokenExpired
    /\ op.name = "get_email_list"
    /\ Len(calls) = 2
    /\ error = NoError
    /\ session_id = pre.session_id

\* C6: every evaluation of is_expired, on any integer email_timestamp and at
\* any integer time, is true exactly when now >= email_timestamp + 3600 - 5;
\* the timestamp it reads is the one on record.
C6_ExpiryArithmetic ==
    expiry.checked
    => /\ expiry.timestamp = pre.email_timestamp
       /\ expiry.result <=> (expiry.now >= expiry.timestamp + 3600 - 5)

C6_Witness ==
    /\ op.name = "is_expired"
    /\ expiry.checked
    /\ expiry.now = expiry.timestamp + 3595
    /\ expiry.result

\* C7 as stated: with email_timestamp = T, is_expired is false at
\* now = T + 3595 and true at now = T + 3596.
C7_Original ==
    expiry.checked
    => /\ expiry.now = expiry.timestamp + 3595 => ~expiry.result
       /\ expiry.now = expiry.timestamp + 3596 => expiry.result

\* C7 amended: with email_timestamp = T, is_expired is false at
\* now = T + 3594 and true at now = T + 3595, the first expired instant.
C7_ExpiryBoundary ==
    expiry.checked
    => /\ expiry.now = expiry.timestamp + 3594 => ~expiry.result
       /\ expiry.now = expiry.timestamp + 3595 => expiry.result

C7_Witness ==
    /\ op.name = "is_expired"
    /\ expiry.checked
    /\ expiry.now = expiry.timestamp + 3594
    /\ ~expiry.result

UpdatingMethods ==
    {"get_email_address", "set_email_address", "get_email_list", "get_email"}

\* C8: after every get_email_address, set_email_address, get_email_list or
\* get_email call that returned a JSON object, each of session_id,
\* email_address and email_timestamp is the value the response carries for
\* it, or else what it was before the call; the next call, or the end of
\* the method, finds the record so.
C8_UpdateFromResponse ==
    \A i \in 1 .. Len(calls) :
        (calls[i].method \in UpdatingMethods /\ Answered(calls[i]))
        => LET c == calls[i]
               d == c.data.items
               after == IF i = Len(calls) THEN Current ELSE calls[i + 1].before
           IN /\ after.session_id =
                    Carried(d, "sid_token", c.before.session_id)
              /\ after.email_address =
                    Carried(d, "email_addr", c.before.email_address)
              /\ after.email_timestamp =
                    Carried(d, "email_timestamp", c.before.email_timestamp)
              /\ c.before = (IF i = 1 THEN pre ELSE calls[i - 1].after)

C8_Witness ==
    /\ op.name = "get_email_list"
    /\ Len(calls) = 2
    /\ Answered(calls[2])
    /\ DOMAIN calls[2].data.items = {"sid_token"}
    /\ session_id = calls[2].data.items.sid_token
    /\ session_id # calls[2].session_id
    /\ email_address = "test@users.org"
    /\ email_timestamp = calls[2].before.email_timestamp

\* C9 as stated: whenever get_session_state returns without failing, the
\* session holds a token and a non-empty mailbox address, and the returned
\* address is the recorded one.
C9_Original ==
    (op.name = "get_session_state" /\ error = NoError)
    => /\ session_id # None
       /\ email_address # None
       /\ email_address # ""
       /\ returned = email_address

\* C9 amended: whenever get_session_state returns without failing, the
\* session holds a token and the returned address is the recorded one; the
\* address is non-empty unless the one renewal call the method made was
\* answered without an address while none was on record, or with an empty
\* one, and then the returned address is absent or empty.
C9_SessionStateReturned ==
    (op.name = "get_session_state" /\ error = NoError)
    => /\ session_id # None
       /\ returned = email_address
       /\ NotStr(email_address)
          => /\ Len(calls) = 1
             /\ calls[1].method \in RenewalMethods
             /\ Answered(calls[1])
             /\ IF "email_addr" \in DOMAIN calls[1].data.items
                THEN calls[1].data.items.email_addr = ""
                ELSE NotStr(pre.email_address)

C9_Witness ==
    /\ op.name = "get_session_state"
    /\ error = NoError
    /\ pre.session_id = None
    /\ session_id # None
    /\ email_address = None
    /\ returned = None

\* C10: in every state of the session, set_email_address makes exactly one
\* client call, set_email_address with the given local part and the token
\* on record, without reading the clock or renewing first; when the call is
\* answered the session record is updated from the response.
C10_SetAddressBypassesRenewal ==
    op.name = "set_email_address"
    => /\ Len(calls) = 1
       /\ calls[1].method = "set_email_address"
       /\ calls[1].args.address_local_part = op.address_local_part
       /\ calls[1].session_id = pre.session_id
       /\ ~expiry.checked
       /\ Answered(calls[1])
          => /\ error = NoError
             /\ session_id =
                  Carried(calls[1].data.items, "sid_token", pre.session_id)
             /\ email_address =
                  Carried(calls[1].data.items, "email_addr", pre.email_address)
             /\ email_timestamp =
                  Carried(calls[1].data.items, "email_timestamp",
                          pre.email_timestamp)

C10_Witness ==
    /\ op.name = "set_email_address"
    /\ pre.session_id = None
    /\ pre.email_address = None
    /\ op.address_local_part = "user@test.com"
    /\ Answered(calls[1])
    /\ session_id = "1"
    /\ email_address = "test@users.org"
    /\ email_timestamp = 1

\* the last client call of the method
LastCall == calls[Len(calls)]

\* get_email_list got as far as its list call and that call returned a JSON
\* object
ListAnswered ==
    /\ op.name = "get_email_list"
    /\ Len(calls) >= 1
    /\ LastCall.method = "get_email_list"
    /\ Answered(LastCall)

\* C11: when the list call is answered, get_email_list does not fail; it
\* returns the empty sequence when the response has no "list" key or an
\* empty one, and otherwise one Mail per raw entry, as many as the remote
\* list has and in its order (the guid of the i-th Mail is the mail_id of
\* the i-th entry).
C11_ListResult ==
    ListAnswered
    => LET d == LastCall.data.items IN
       /\ error = NoError
       /\ IF "list" \notin DOMAIN d \/ d.list = <<>>
          THEN returned = <<>>
          ELSE /\ Len(returned) = Len(d.list)
               /\ \A i \in 1 .. Len(d.list) :
                    returned[i].guid = d.list[i].mail_id

C11_Witness ==
    /\ ListAnswered
    /\ "list" \in DOMAIN LastCall.data.items
    /\ Len(LastCall.data.items.list) = 2
    /\ error = NoError
    /\ Len(returned) = 2
    /\ returned[1].guid = "2"
    /\ returned[2].guid = "1"

\* the service answered a client call with status 200 and an empty body, or
\* with the literal false
NoDataAnswer(c) ==
    /\ c.answer.status = 200
    /\ \/ c.answer.text = ""
       \/ (c.answer.text = "json" /\ c.answer.json = PyFalse)

\* C12: when the fetch call is answered with an empty body or with the
\* literal false, get_email fails with 'Not found: ' followed by the
\* requested id; it returns no Mail and makes no further call.
C12_NotFoundCarriesId ==
    \A i \in 1 .. Len(calls) :
        (calls[i].method = "get_email" /\ NoDataAnswer(calls[i]))
        => /\ op.name = "get_email"
           /\ i = Len(calls)
           /\ calls[i].raised = error
           /\ error = "GuerrillaMailException: Not found: " \o op.email_id
           /\ returned = None

C12_Witness ==
    /\ op.name = "get_email"
    /\ Len(calls) = 1
    /\ NoDataAnswer(calls[1])
    /\ calls[1].answer.text = "json"
    /\ error = "GuerrillaMailException: Not found: 123"

\* C13: get_email on a session that holds no token makes exactly one client
\* call, the fetch call, and hands it the absent token (session_id=None).
C13_FetchWithAbsentToken ==
    (op.name = "get_email" /\ pre.session_id = None)
    => /\ Len(calls) = 1
       /\ calls[1].method = "get_email"
       /\ calls[1].session_id = None

\* cli() has run
CliRan == op.name = "cli"

\* the session a next run of cli() constructs from the settings file
Saved == GuerrillaMailSession(load_settings(settings_file))

\* C14: when the command of a run of cli() fails with a
\* GuerrillaMailException (request failed, failed to obtain session id, not
\* found), cli() prints the message to stderr, prints no output, lets no
\* exception out and saves the settings once; the saved session_id,
\* email_address and email_timestamp are those of the session when the
\* command failed.
C14_TaxonomyErrorReportedAndSaved ==
    (CliRan /\ GuerrillaMailException(error))
    => /\ invocation.stderr = message(error)
       /\ invocation.stdout = PyNone
       /\ invocation.propagated = NoError
       /\ invocation.saves = 1
       /\ settings_file.exists
       /\ Saved = Current

\* a renewal that changed token, address and timestamp, then a failed call
C14_Witness ==
    /\ CliRan
    /\ Len(calls) = 2
    /\ calls[1].raised = NoError
    /\ calls[1].after.session_id # pre.session_id
    /\ calls[1].after.email_address # pre.email_address
    /\ calls[1].after.email_timestamp # pre.email_timestamp
    /\ calls[2].raised = RequestFailed
    /\ invocation.stderr = "Request failed"
    /\ invocation.saves = 1
    /\ settings_file.exists
    /\ Saved = calls[1].after
    /\ Saved # pre

\* C15: every run of cli() loads the settings once and saves them exactly
\* once, with the session's session_id, email_timestamp and email_address
\* at its end, whatever the outcome of the command.
C15_SavedWhateverTheOutcome ==
    CliRan
    => /\ invocation.loads = 1
       /\ invocation.saves = 1
       /\ settings_file.exists
       /\ Saved = Current

\* C16: the session constructed from the settings that were updated from a
\* session record, saved and loaded again has the session_id, email_address
\* and email_timestamp of that record.
C16_SettingsRoundTrip ==
    GuerrillaMailSession(load_settings(save_settings(
        update_settings(EmptyDict, Current)))) = Current

\* the record forget_me leaves, with None for all three, and its file
C16_Witness ==
    /\ op.name = "forget_me"
    /\ error = NoError
    /\ pre.session_id # None
    /\ pre.email_timestamp > 0
    /\ email_timestamp = NoneInt
    /\ save_settings(update_settings(EmptyDict, Current)).text
         = [session_id |-> "null", email_timestamp |-> "null",
            email_address |-> "null"]
    /\ save_settings(update_settings(EmptyDict, pre)).text.email_timestamp
         = ToString(pre.email_timestamp)

\* C17: a client call answered with status 200 and a non-empty body that is
\* not JSON fails with a GuerrillaMailException, and cli() reports it on
\* stderr and lets no exception out.
C17_MalformedResponseReported ==
    \A i \in 1 .. Len(calls) :
        (calls[i].answer.status = 200 /\ calls[i].answer.text = "malformed")
        => /\ GuerrillaMailException(calls[i].raised)
           /\ CliRan => /\ invocation.propagated = NoError
                        /\ invocation.stderr # None

\* C18: every client call that the service answers with a non-success
\* status fails with 'Request failed' and returns no data; the session
\* method ends with that failure.
C18_FailedRequest ==
    \A i \in 1 .. Len(calls) :
        (calls[i].request # NoRequest /\ calls[i].answer.status # 200)
        => /\ calls[i].raised = RequestFailed
           /\ calls[i].data = PyNone
           /\ i = Len(calls)
           /\ error = RequestFailed

C18_Witness ==
    /\ op.name = "delete_email"
    /\ Len(calls) = 2
    /\ calls[1].raised = NoError
    /\ calls[2].method = "del_email"
    /\ calls[2].answer.status = 500
    /\ error = RequestFailed

\* the value of the f parameter for each client method
OperationName(method) ==
    CASE method = "get_email_address" -> "get_email_address"
      [] method = "get_email_list" -> "get_email_list"
      [] method = "get_email" -> "fetch_email"
      [] method = "set_email_address" -> "set_email_user"
      [] method = "del_email" -> "del_email"
      [] method = "forget_me" -> "forget_me"

\* C19: every request sent carries the operation name in f and the client
\* IP in ip, and carries sid_token, with the token handed to the client,
\* exactly when that token is not None.
C19_RequestParameters ==
    \A i \in 1 .. Len(calls) :
        calls[i].request # NoRequest
        => LET sent == calls[i].request IN
           /\ {"f", "ip"} \subseteq DOMAIN sent
           /\ sent.f = OperationName(calls[i].method)
           /\ sent.ip = "127.0.0.1"
           /\ ("sid_token" \in DOMAIN sent) <=> (calls[i].session_id # None)
           /\ "sid_token" \in DOMAIN sent
              => sent.sid_token = calls[i].session_id

C19_Witness ==
    /\ op.name = "get_email"
    /\ Len(calls) = 2
    /\ calls[1].session_id = None
    /\ DOMAIN calls[1].request = {"f", "ip"}
    /\ DOMAIN calls[2].request = {"f", "ip", "email_id", "sid_token"}
    /\ calls[2].request.sid_token = "2"
    /\ calls[2].request.f = "fetch_email"

\* C20: delete_email on a session whose token is not expired leaves
\* session_id, email_address and email_timestamp as they were, whatever the
\* delete response carries; its one call is del_email.
C20_DeleteLeavesRecord ==
    (op.name = "delete_email" /\ TokenCurrent)
    => /\ Len(calls) = 1
       /\ calls[1].method = "del_email"
       /\ Current = pre

C20_Witness ==
    /\ op.name = "delete_email"
    /\ TokenCurrent
    /\ Len(calls) = 1
    /\ Answered(calls[1])
    /\ DOMAIN calls[1].data.items = SessionKeys
    /\ calls[1].data.items.sid_token # pre.session_id
    /\ calls[1].data.items.email_addr # pre.email_address
    /\ calls[1].data.items.email_timestamp # pre.email_timestamp
    /\ error = NoError
    /\ Current = pre

\* C21: after a forget_me whose client call did not fail, the session record
\* is that of a newly created session: session_id None, email_address None,
\* email_timestamp 0.
C21_ForgottenIsNew ==
    (op.name = "forget_me" /\ error = NoError)
    => Current = Record(None, None, 0)

\* a renewal call of an operation entered with an address on record, answered
\* with a JSON object
RenewalWithAddress(i) ==
    /\ op.name \in EnsureOps
    /\ AddressOnRecord
    /\ i \in RenewalCalls(calls)
    /\ Answered(calls[i])

\* C25 as stated: after an answered renewal of a session with an address on
\* record, the recorded address is the address recorded before the renewal,
\* whatever the response carries.
C25_Original ==
    \A i \in 1 .. Len(calls) :
        RenewalWithAddress(i)
        => calls[i].after.email_address = pre.email_address

\* C25 amended: the renewal of a session with an address on record asks for
\* that address, and the address recorded after it is the email_addr of the
\* response; it is the address recorded before only when the response
\* carries that address or no email_addr.
C25_RenewalAddressFromResponse ==
    \A i \in 1 .. Len(calls) :
        RenewalWithAddress(i)
        => LET d == calls[i].data.items IN
           /\ calls[i].method = "set_email_address"
           /\ calls[i].args.address_local_part = pre.email_address
           /\ IF "email_addr" \in DOMAIN d
              THEN calls[i].after.email_address = d.email_addr
              ELSE calls[i].after.email_address = pre.email_address
           /\ (calls[i].after.email_address = pre.email_address)
              <=> ("email_addr" \notin DOMAIN d
                   \/ d.email_addr = pre.email_address)

\* the renewal answered with another address, which is recorded and kept
C25_Witness ==
    /\ op.name = "get_email_list"
    /\ TokenExpired
    /\ pre.email_address = "user@test.com"
    /\ Len(calls) = 2
    /\ RenewalWithAddress(1)
    /\ "email_addr" \in DOMAIN calls[1].data.items
    /\ calls[1].data.items.email_addr = ""
    /\ calls[1].after.email_address = ""
    /\ error = NoError
    /\ email_address = ""

\* the token the session holds when it makes its i-th call: the token on
\* entry, replaced by every sid_token an earlier call of the method returned
TokenHeld(i) ==
    IF i = 1 THEN pre.session_id
    ELSE IF Answered(calls[1])
    THEN Carried(calls[1].data.items, "sid_token", pre.session_id)
    ELSE pre.session_id

\* C26: every request the session sends carries the token the session holds
\* at that moment, and no sid_token when it holds none: the first call of a
\* method the token on entry, a call after a renewal the token the renewal
\* returned (the old one when it returned none).
C26_CallCarriesHeldToken ==
    \A i \in 1 .. Len(calls) :
        (op.name # "cli" /\ calls[i].request # NoRequest)
        => /\ i <= 2
           /\ IF TokenHeld(i) = None
              THEN "sid_token" \notin DOMAIN calls[i].request
              ELSE /\ "sid_token" \in DOMAIN calls[i].request
                   /\ calls[i].request.sid_token = TokenHeld(i)

\* an expired token "1" goes with the renewal, the new token "2" with the
\* list call
C26_Witness ==
    /\ op.name = "get_email_list"
    /\ pre.session_id = "1"
    /\ TokenExpired
    /\ Len(calls) = 2
    /\ calls[1].request.sid_token = "1"
    /\ Answered(calls[1])
    /\ "sid_token" \in DOMAIN calls[1].data.items
    /\ calls[1].data.items.sid_token = "2"
    /\ calls[2].method = "get_email_list"
    /\ calls[2].request.sid_token = "2"

\* the token is held and not expired, and no address is on record
StaleUnpopulated == TokenCurrent /\ ~AddressOnRecord

\* C27: entered with a token that is not expired and no address on record,
\* get_session_state makes exactly one call, get_email_address, while
\* get_email_list, get_email and delete_email make no renewal call, only
\* their requested call.
C27_StaleUnpopulated ==
    StaleUnpopulated
    => /\ op.name = "get_session_state"
          => /\ Len(calls) = 1
             /\ calls[1].method = "get_email_address"
       /\ op.name \in MailboxOps
          => /\ "get_email_address" \notin Methods(calls)
             /\ "set_email_address" \notin Methods(calls)
             /\ Methods(calls) = {Requested(op.name)}

C27_Witness ==
    /\ StaleUnpopulated
    /\ op.name = "get_session_state"
    /\ pre.email_address = ""
    /\ Len(calls) = 1
    /\ calls[1].method = "get_email_address"
    /\ calls[1].request.sid_token = pre.session_id
    /\ error = NoError
    /\ returned = "test@users.org"

TokenMethods == {"get_email_list", "get_email", "del_email"}

SingleCallOps == {"get_session_state", "set_email_address", "forget_me"}

\* C29: a session method makes at most two client calls, and when it makes
\* two the first is a renewal call and the second its requested call;
\* get_session_state, set_email_address and forget_me make at most one.
C29_AtMostTwoCalls ==
    op.name # "cli"
    => /\ Len(calls) <= 2
       /\ Len(calls) = 2
          => /\ op.name \in MailboxOps
             /\ calls[1].method \in RenewalMethods
             /\ calls[2].method = Requested(op.name)
       /\ op.name \in SingleCallOps => Len(calls) <= 1
       /\ (op.name \in MailboxOps /\ Len(calls) = 1)
          => calls[1].method \in RenewalMethods \cup {Requested(op.name)}

C29_Witness ==
    /\ op.name = "delete_email"
    /\ Len(calls) = 2
    /\ calls[1].method = "set_email_address"
    /\ calls[2].method = "del_email"
    /\ error = NoError

\* C30: a client call that raises is the last call of the method, and the
\* method ends with the exception that call raised: no requested call after
\* a failed renewal, no second attempt.
C30_FailureEndsOperation ==
    \A i \in 1 .. Len(calls) :
        calls[i].raised # NoError
        => /\ i = Len(calls)
           /\ error = calls[i].raised
           /\ \A j \in 1 .. Len(calls) :
                calls[j].method = calls[i].method => j = i

\* a renewal that failed, with no requested call after it
C30_Witness ==
    /\ op.name = "get_email"
    /\ pre.session_id = None
    /\ Len(calls) = 1
    /\ calls[1].method = "get_email_address"
    /\ calls[1].raised = RequestFailed
    /\ error = RequestFailed
    /\ returned = None

\* the attributes of a Mail whose value is the raw text under their key
TextAttributes ==
    [guid |-> "mail_id", subject |-> "mail_subject", sender |-> "mail_from",
     excerpt |-> "mail_excerpt", body |-> "mail_body"]

\* C22: Mail.from_response raises nothing and gives a Mail with exactly the
\* attributes of Mail: guid, subject, sender, excerpt and body are the raw
\* text under their key or None without it, read is the integer of
\* mail_read or False without it, datetime is the UTC datetime of
\* mail_timestamp or None without it, exerpt is None, and the other keys of
\* the raw message give no attribute.
C22_FromResponseDefaults ==
    op.name = "from_response"
    => LET raw == op.response_data IN
       /\ error = NoError
       /\ DOMAIN returned = {"guid", "subject", "sender", "datetime", "read",
                             "exerpt", "excerpt", "body"}
       /\ \A a \in DOMAIN TextAttributes :
            returned[a] = IF TextAttributes[a] \in DOMAIN raw
                          THEN raw[TextAttributes[a]] ELSE None
       /\ returned.read = IF "mail_read" \notin DOMAIN raw THEN 0
                          ELSE IF raw.mail_read = "1" THEN 1 ELSE 0
       /\ IF "mail_timestamp" \in DOMAIN raw
          THEN /\ returned.datetime.type = "datetime"
               /\ returned.datetime.items.timestamp = 1392501749
               /\ returned.datetime.items.tzinfo = "UTC"
          ELSE returned.datetime.type = "NoneType"
       /\ returned.exerpt = None

\* a raw message with a subject, the misspelt key and an unknown key
C22_Witness ==
    /\ op.name = "from_response"
    /\ DOMAIN op.response_data
         = {"mail_subject", "mail_exerpt", "mail_recipient"}
    /\ returned.subject = "Hello"
    /\ returned.guid = None
    /\ returned.excerpt = None
    /\ returned.read = 0
    /\ returned.datetime.type = "NoneType"

\* C23: mail.time is None when mail.datetime is None; otherwise it is the
\* time of day of mail.datetime, with the UTC tzinfo exactly when
\* mail.datetime has it.
C23_TimeOfDay ==
    op.name = "time"
    => IF op.mail.datetime.type = "NoneType"
       THEN returned.type = "NoneType"
       ELSE /\ returned.type = "time"
            /\ returned.items.seconds
                 = op.mail.datetime.items.timestamp % 86400
            /\ (returned.items.tzinfo = "UTC")
               <=> (op.mail.datetime.items.tzinfo = "UTC")
            /\ returned.items.tzinfo = op.mail.datetime.items.tzinfo

\* the naive 19:34 gives a naive 19:34
C23_Witness ==
    /\ op.name = "time"
    /\ op.mail.datetime.type = "datetime"
    /\ op.mail.datetime.items = [timestamp |-> 70440, tzinfo |-> None]
    /\ returned.type = "time"
    /\ returned.items = [seconds |-> 70440, tzinfo |-> None]

\* the command lines with the command named first and then exactly its
\* argument
Accepted(args, plain, with_argument) ==
    \/ Len(args) = 1 /\ args[1] \in plain
    \/ Len(args) = 2 /\ args[1] \in with_argument

\* C24 as stated: the commands are address, setaddr, list and get.
C24_Original ==
    /\ op.name = "get_command"
       => (error = NoError
           <=> op.command_name \in {"address", "setaddr", "list", "get"})
    /\ op.name = "parse_args"
       => (error = NoError
           <=> Accepted(op.args, {"address", "list"}, {"setaddr", "get"}))

\* C24 amended: get_command gives the command class for info, setaddr, list
\* and get and raises ValueError for any other name; parse_args accepts
\* info, setaddr <address>, list and get <id>, with the command and its
\* argument in the result, and exits on any other command line.
C24_Subcommands ==
    /\ op.name = "get_command"
       => /\ error = NoError
             <=> op.command_name \in {"info", "setaddr", "list", "get"}
          /\ error # NoError => (error = ValueError /\ returned = None)
          /\ op.command_name = "info" => returned = "GetInfoCommand"
          /\ op.command_name = "setaddr" => returned = "SetAddressCommand"
          /\ op.command_name = "list" => returned = "ListEmailCommand"
          /\ op.command_name = "get" => returned = "GetEmailCommand"
    /\ op.name = "parse_args"
       => /\ error = NoError
             <=> Accepted(op.args, {"info", "list"}, {"setaddr", "get"})
          /\ error # NoError => error = SystemExit
          /\ error = NoError
             => /\ returned.command = op.args[1]
                /\ op.args[1] = "setaddr" => returned.address = op.args[2]
                /\ op.args[1] = "get" => returned.id = op.args[2]

\* the name address is no command
C24_Witness ==
    /\ op.name = "get_command"
    /\ op.command_name = "address"
    /\ error = ValueError

\* C31: a client call that raises 'Request failed' or 'Email not found'
\* leaves session_id, email_address and email_timestamp as they were
\* immediately before that call, and the method ends with the record in that
\* state; a forget_me whose call raises leaves the record it was entered
\* with.
C31_FailedCallLeavesRecord ==
    \A i \in 1 .. Len(calls) :
        GuerrillaMailException(calls[i].raised)
        => /\ calls[i].after = calls[i].before
           /\ Current = calls[i].before
           /\ calls[i].method = "forget_me" => Current = pre

\* forget_me of a session with a token, an address and a timestamp, refused
\* by the service
C31_Witness ==
    /\ op.name = "forget_me"
    /\ Len(calls) = 1
    /\ calls[1].method = "forget_me"
    /\ calls[1].raised = RequestFailed
    /\ pre.session_id # None
    /\ pre.email_address # None
    /\ error = RequestFailed
    /\ Current = pre

\* is_expired() raised in _ensure_valid_session: the operation ended with a
\* TypeError before any client call
ExpiryCheckFailed ==
    /\ op.name \in EnsureOps
    /\ Len(calls) = 0
    /\ error = TypeError

\* C32: in every state the recorded email_timestamp is an integer, also
\* after forget_me and the operations that follow it, and no mailbox
\* operation ends with is_expired() raising.
C32_TimestampIsInteger ==
    /\ email_timestamp # NoneInt
    /\ ~ExpiryCheckFailed

\* C33: a get_email_address, set_email_address or get_email_list call that
\* the service answers with an empty body or the literal false leaves the
\* session record as it was before the call, and the method ends without
\* an exception or with a GuerrillaMailException.
C33_NoDataLeavesRecord ==
    \A i \in 1 .. Len(calls) :
        (/\ calls[i].method
              \in {"get_email_address", "set_email_address", "get_email_list"}
         /\ NoDataAnswer(calls[i]))
        => /\ calls[i].after = calls[i].before
           /\ error = NoError \/ GuerrillaMailException(error)

\* the token on record after the call c: the sid_token of the response when
\* the method updates the session from a JSON object that has one, the token
\* held before the call otherwise
TokenAfter(c) ==
    IF c.method \in UpdatingMethods /\ Answered(c)
    THEN Carried(c.data.items, "sid_token", c.before.session_id)
    ELSE c.before.session_id

\* C34: a method other than forget_me that is entered with a token ends with
\* a token, and holds one before and after each of its calls: the token
\* after a call is the sid_token of its response (a string whenever the
\* response has one) or else the token held before it, whether the call
\* raised, was a renewal, or was answered without sid_token.
C34_HeldTokenStays ==
    (pre.session_id # None /\ op.name # "forget_me")
    => /\ session_id # None
       /\ \A i \in 1 .. Len(calls) :
            /\ calls[i].before.session_id # None
            /\ calls[i].after.session_id = TokenAfter(calls[i])
            /\ calls[i].after.session_id # None

\* an expired token: the renewal is answered without sid_token, the list
\* call is refused, and the old token is still on record
C34_Witness ==
    /\ op.name = "get_email_list"
    /\ pre.session_id = "1"
    /\ TokenExpired
    /\ Len(calls) = 2
    /\ Answered(calls[1])
    /\ "sid_token" \notin DOMAIN calls[1].data.items
    /\ calls[2].raised = RequestFailed
    /\ error = RequestFailed
    /\ session_id = "1"

\* the processes between their load and their save
Loaded == {p \in Processes : processes[p].pc = "loaded"}

\* a process saved over the record another process had saved after the load
\* of the first
SavedBehind ==
    /\ op.name = "cli"
    /\ invocation.saves = 1
    /\ op.behind

\* the token another process had saved is gone from the file
TokenLost ==
    /\ SavedBehind
    /\ op.overwritten # pre
    /\ op.overwritten.session_id # None
    /\ op.overwritten.session_id # Saved.session_id

\* C35: at no time are two runs of cli() between their load_settings and
\* their save_settings, and no run saves over a record that another run
\* saved after the load of the first.
C35_NoConcurrentWriters ==
    /\ Cardinality(Loaded) <= 1
    /\ ~SavedBehind

====
